---- MODULE Spec2Model ----
(***************************************************************************)
(* Model of the Wanmai workspace: the assistant's command interpreter      *)
(* (src/components/AIAssistant.tsx), the optimistic task store of the App  *)
(* component (src/App.tsx) and the localStorage-backed WorkspaceService    *)
(* (src/services/workspaceService.ts).                                     *)
(*                                                                         *)
(* Strings are TLA+ strings handled character by character (Len, SubSeq,   *)
(* \o), so that the regular expressions of the interpreter are modelled by *)
(* what they match.  Time is counted in units of 100 ms.                   *)
(***************************************************************************)
EXTENDS Integers, Sequences, FiniteSets, TLC

VARIABLES
    tasks,        \* App: useState<Task[]>, the in-memory task collection
    storage,      \* localStorage[TASKS_STORAGE_KEY]: a task list, or NoItem
    loading,      \* App: loading flag (initial hydration in progress)
    syncing,      \* App: syncing flag (handleSync in progress)
    searchQuery,  \* App: search box content, filters what the views receive
    messages,     \* AIAssistant: the message log
    isTyping,     \* AIAssistant: the typing flag
    isOpen,       \* AIAssistant: panel open
    timers,       \* pending setTimeout callbacks, in registration order
    budget,       \* remaining user operations, per kind (bounds the run)
    last,         \* the step just taken (history, read by the properties)
    probe         \* input and result of the pure-function specifications

vars == <<tasks, storage, loading, syncing, searchQuery, messages, isTyping,
          isOpen, timers, budget, last, probe>>

-----------------------------------------------------------------------------
(* Strings *)

\* String.prototype.charAt, positions counted from 1
CharAt(s, i) == IF 1 <= i /\ i <= Len(s) THEN SubSeq(s, i, i) ELSE ""

UpperChars == "ABCDEFGHIJKLMNOPQRSTUVWXYZ"
LowerChars == "abcdefghijklmnopqrstuvwxyz"

\* The lower-case letter of each upper-case letter, and the converse
LowerMap ==
    [c \in {CharAt(UpperChars, i) : i \in 1..Len(UpperChars)} |->
        CharAt(LowerChars, CHOOSE i \in 1..Len(UpperChars) : CharAt(UpperChars, i) = c)]

UpperMap ==
    [c \in {CharAt(LowerChars, i) : i \in 1..Len(LowerChars)} |->
        CharAt(UpperChars, CHOOSE i \in 1..Len(LowerChars) : CharAt(LowerChars, i) = c)]

LowerChar(c) == IF c \in DOMAIN LowerMap THEN LowerMap[c] ELSE c

UpperChar(c) == IF c \in DOMAIN UpperMap THEN UpperMap[c] ELSE c

RECURSIVE ToLowerCase(_)
ToLowerCase(s) ==
    IF s = "" THEN "" ELSE LowerChar(Head(s)) \o ToLowerCase(Tail(s))

\* p occurs in s at position i (1-based)
StartsAt(s, p, i) ==
    /\ i >= 1
    /\ i + Len(p) - 1 <= Len(s)
    /\ SubSeq(s, i, i + Len(p) - 1) = p

\* String.prototype.includes
Includes(s, p) == p = "" \/ \E i \in 1..Len(s) : StartsAt(s, p, i)

\* /(w1|w2|...)/.test(s) for literal alternatives
TestAny(s, words) == \E w \in words : Includes(s, w)

RECURSIVE TrimStart(_)
TrimStart(s) == IF s # "" /\ Head(s) = " " THEN TrimStart(Tail(s)) ELSE s

RECURSIVE TrimEnd(_)
TrimEnd(s) ==
    IF s # "" /\ CharAt(s, Len(s)) = " "
    THEN TrimEnd(SubSeq(s, 1, Len(s) - 1))
    ELSE s

\* String.prototype.trim (the inputs hold no white space but blanks)
Trim(s) == TrimEnd(TrimStart(s))

\* s.charAt(0).toUpperCase() + s.slice(1)
Capitalize(s) == IF s = "" THEN "" ELSE UpperChar(Head(s)) \o Tail(s)

\* name.split(' ')[0]
RECURSIVE FirstWord(_)
FirstWord(s) ==
    IF s = "" \/ Head(s) = " " THEN "" ELSE Head(s) \o FirstWord(Tail(s))

Digits == "0123456789"

\* `${n}` for a non-negative integer n
RECURSIVE NatToString(_)
NatToString(n) ==
    IF n < 10 THEN CharAt(Digits, n + 1)
    ELSE NatToString(n \div 10) \o CharAt(Digits, (n % 10) + 1)

Min(S) == CHOOSE x \in S : \A y \in S : x <= y
Max(S) == CHOOSE x \in S : \A y \in S : x >= y

-----------------------------------------------------------------------------
(* Types (types.ts) and seed data *)

TODO        == "To Do"
IN_PROGRESS == "In Progress"
REVIEW      == "Review"
DONE        == "Done"
BLOCKED     == "Blocked"
TaskStatus  == {TODO, IN_PROGRESS, REVIEW, DONE, BLOCKED}

LOW       == "Low"
MEDIUM    == "Medium"
HIGH      == "High"
CRITICAL  == "Critical"
RiskLevel == {LOW, MEDIUM, HIGH, CRITICAL}

\* A Task (dueDate, isCriticalPath and position are carried by no rule below)
Task(id, name, assignee, status, riskLevel, description) ==
    [id |-> id, name |-> name, assignee |-> assignee, status |-> status,
     riskLevel |-> riskLevel, description |-> description]

DEFAULT_TASKS ==
    << Task("TSK-001", "Project Scope Definition", "Alice PM", DONE, LOW,
            "Finalize scope from Google Doc requirements."),
       Task("TSK-002", "Architecture Design", "Bob Arch", DONE, MEDIUM,
            "Draft system architecture diagrams."),
       Task("TSK-003", "Frontend Development", "Charlie Dev", IN_PROGRESS, HIGH,
            "Implement UI components using React."),
       Task("TSK-004", "Backend API Setup", "Dave Backend", IN_PROGRESS, MEDIUM,
            "Setup Node.js Express server."),
       Task("TSK-005", "User Acceptance Testing", "Eve QA", TODO, LOW,
            "Run UAT scenarios."),
       Task("TSK-006", "Deployment to Prod", "Frank DevOps", BLOCKED, CRITICAL,
            "Deploy to AWS production environment.") >>

\* What Array.prototype.find returns when nothing matches
Undefined == [undefined |-> TRUE]

\* Array.prototype.find: the first of the elements that satisfy the test,
\* given as the subsequence of those elements
Find(matching) == IF matching = << >> THEN Undefined ELSE Head(matching)

\* Array.prototype.filter(...).length
Count(matching) == Len(matching)

\* Variant of Merge that gives the updated copy an identifier of its own
Merge_Retag(t, updates) ==
    [f \in DOMAIN t \cup DOMAIN updates |->
        IF f = "id" THEN t.id \o "'"
        ELSE IF f \in DOMAIN updates THEN updates[f] ELSE t[f]]

\* { ...t, ...updates }
Merge(t, updates) ==
    [f \in DOMAIN t \cup DOMAIN updates |->
        IF f \in DOMAIN updates THEN updates[f] ELSE t[f]]

-----------------------------------------------------------------------------
(* AIAssistant: entity resolution *)

\* Variant of findTaskFuzzy that tries the name pass before the identifier pass
findTaskFuzzy_NameFirst(ts, query) ==
    LET lowerQuery == ToLowerCase(query)
        byName == Find(SelectSeq(ts, LAMBDA t : Includes(ToLowerCase(t.name), lowerQuery)))
    IN  IF byName # Undefined
        THEN byName
        ELSE Find(SelectSeq(ts, LAMBDA t : ToLowerCase(t.id) = lowerQuery))

findTaskFuzzy(ts, query) ==
    LET lowerQuery == ToLowerCase(query)
        exactId == Find(SelectSeq(ts, LAMBDA t : ToLowerCase(t.id) = lowerQuery))
    IN  IF exactId # Undefined
        THEN exactId
        ELSE Find(SelectSeq(ts, LAMBDA t : Includes(ToLowerCase(t.name), lowerQuery)))

-----------------------------------------------------------------------------
(* AIAssistant: the regular expressions of processAIResponse *)

SummaryWords  == {"summary", "status", "overview"}
RiskWords     == {"risk", "critical", "attention"}
WorkloadWords == {"workload", "who", "resource", "busy"}
FlowWords     == {"flow", "diagram", "process"}
CreateVerbs   == {"create", "add", "new"}
UpdateVerbs   == {"mark", "set", "update"}
UpdateLinks   == {"as", "to"}
StatusTokens  == {"done", "in progress", "todo", "blocked", "review"}
NameAnchors   == {"task", "add", "create"}

\* /^(create|add|new) task/i.test(s)
TestCreate(s) == \E v \in CreateVerbs : StartsAt(s, v \o " task", 1)

\* The status tokens t with " (as|to) t" at position i of s
StatusAt(s, i) ==
    IF CharAt(s, i) # " " THEN {}
    ELSE {t \in StatusTokens :
            \E l \in UpdateLinks : StartsAt(s, " " \o l \o " " \o t, i)}

\* The positions e after which " (as|to) (token)" follows: where the capture
\* (.+) may end
UpdateEnds(s) == {e \in 1..Len(s) : StatusAt(s, e + 1) # {}}

\* The positions at which /(?:mark|set|update) (.+) (?:as|to) (done|...)/
\* matches: a verb and a blank, then at least one character up to some end
UpdateStarts(s, ends) ==
    {i \in 1..Len(s) :
        \E v \in UpdateVerbs :
            /\ StartsAt(s, v \o " ", i)
            /\ \E e \in ends : e >= i + Len(v) + 1}

\* s.match(/(?:mark|set|update) (.+) (?:as|to) (done|in progress|todo|
\* blocked|review)/i): the leftmost match, (.+) greedy; Undefined for null
MatchUpdate(s) ==
    LET ends   == UpdateEnds(s)
        starts == UpdateStarts(s, ends)
    IN  IF starts = {} THEN Undefined
        ELSE LET i  == Min(starts)
                 v  == CHOOSE w \in UpdateVerbs : StartsAt(s, w \o " ", i)
                 e  == Max(ends)
             IN  [g1 |-> SubSeq(s, i + Len(v) + 1, e),
                  g2 |-> CHOOSE t \in StatusAt(s, e + 1) : TRUE]

\* Where the capture (.+?) begins for a match of the name pattern begun at i:
\* after the anchor and its blank, and after "for " when at least one
\* character is left behind it; 0 when the pattern does not match at i
NameCaptureStart(lower, i) ==
    IF ~ \E w \in NameAnchors : StartsAt(lower, w \o " ", i) THEN 0
    ELSE LET w == CHOOSE x \in NameAnchors : StartsAt(lower, x \o " ", i)
             p == i + Len(w) + 1
         IN  IF StartsAt(lower, "for ", p) /\ p + 4 <= Len(lower) THEN p + 4
             ELSE IF p <= Len(lower) THEN p
             ELSE 0

\* input.match(/(?:task|add|create) (?:for )?(.+?)(?:$| priority)/i)[1]:
\* the leftmost match, (.+?) lazy; Undefined for null
MatchName(input) ==
    LET lower  == ToLowerCase(input)
        starts == {i \in 1..Len(input) : NameCaptureStart(lower, i) # 0}
    IN  IF starts = {} THEN Undefined
        ELSE LET cs == NameCaptureStart(lower, Min(starts))
                 e  == Min({k \in cs..Len(input) :
                              k = Len(input) \/ StartsAt(lower, " priority", k + 1)})
             IN  [g1 |-> SubSeq(input, cs, e)]

\* nameMatch ? nameMatch[1].replace(/^(task )/i, '').trim() : "New Task"
ExtractTaskName(input) ==
    LET nameMatch == MatchName(input)
    IN  IF nameMatch = Undefined THEN "New Task"
        ELSE LET g == nameMatch.g1
             IN  Trim(IF StartsAt(ToLowerCase(g), "task ", 1)
                      THEN SubSeq(g, 6, Len(g)) ELSE g)

-----------------------------------------------------------------------------
(* AIAssistant: processAIResponse, the body of the delayed callback *)

\* Math.round(n / d * 100) for 0 <= n <= d, d > 0: the nearest integer, a
\* half rounded up
\* Variant of RoundPercent that truncates instead of rounding
RoundPercent_Floor(n, d) == (100 * n) \div d

RoundPercent(n, d) == (200 * n + d) \div (2 * d)

\* total > 0 ? Math.round((done / total) * 100) : 0
Progress(done, total) == IF total > 0 THEN RoundPercent(done, total) ELSE 0

\* JavaScript values of the two types a workloadMap entry can hold
JsNumber(n) == [type |-> "number", value |-> n]
JsString(str) == [type |-> "string", value |-> str]

\* Function-valued properties that the object literal {} inherits from
\* Object.prototype (a representative part of them)
InheritedKeys == {"constructor", "toString", "valueOf", "hasOwnProperty"}

\* String(Object.prototype[key]) for an inherited function
FunctionText(key) ==
    "function " \o (IF key = "constructor" THEN "Object" ELSE key)
        \o "() { [native code] }"

\* The own keys of workloadMap in insertion order: the assignees of the tasks
\* that are not Done, each once, in order of first appearance.  An assignment
\* to the key "__proto__" of a non-object is ignored and creates no own key.
\* (Array-index keys, which Object.entries lists first, are not among the
\* assignees considered.)
RECURSIVE WorkloadKeys(_)
WorkloadKeys(ts) ==
    IF ts = << >> THEN << >>
    ELSE LET n    == Len(ts)
             init == WorkloadKeys(SubSeq(ts, 1, n - 1))
             a    == ts[n].assignee
         IN  IF ts[n].status # DONE /\ a # "__proto__"
                /\ ~ \E i \in 1..Len(init) : init[i] = a
             THEN Append(init, a)
             ELSE init

RECURSIVE Ones(_)
Ones(n) == IF n = 0 THEN "" ELSE Ones(n - 1) \o "1"

\* The value of workloadMap[key] after n rounds of
\* workloadMap[key] = (workloadMap[key] || 0) + 1: the first read of an
\* inherited key yields the inherited function, and function + 1 is a string
WorkloadCount(key, n) ==
    IF key \in InheritedKeys
    THEN JsString(FunctionText(key) \o Ones(n))
    ELSE JsNumber(n)

\* Object.entries(workloadMap).map(([name, count]) => ({name: first word, tasks: count}))
WorkloadEntries(ts) ==
    LET keys == WorkloadKeys(ts)
    IN  [k \in 1..Len(keys) |->
            [name  |-> FirstWord(keys[k]),
             tasks |-> WorkloadCount(keys[k],
                         Count(SelectSeq(ts, LAMBDA t : t.status # DONE /\ t.assignee = keys[k])))]]

\* The comparator (a, b) => b.tasks - a.tasks; a NaN result counts as 0
Busier(a, b) ==
    IF a.tasks.type = "number" /\ b.tasks.type = "number"
    THEN b.tasks.value - a.tasks.value
    ELSE 0

\* Array.prototype.sort with that comparator: a stable sort, as an insertion
\* sort.  (With a count that is not a number the comparator is inconsistent
\* and the order is implementation-defined; this is one such order.)
RECURSIVE InsertBusiest(_, _)
InsertBusiest(sorted, e) ==
    IF sorted # << >> /\ Busier(sorted[Len(sorted)], e) > 0
    THEN Append(InsertBusiest(SubSeq(sorted, 1, Len(sorted) - 1), e), sorted[Len(sorted)])
    ELSE Append(sorted, e)

RECURSIVE SortBusiest(_)
SortBusiest(es) ==
    IF es = << >> THEN << >>
    ELSE InsertBusiest(SortBusiest(SubSeq(es, 1, Len(es) - 1)), es[Len(es)])

\* Variant of statusMap that passes the captured token on as the status
statusMap_FreeText(token) == token

statusMap(token) ==
    CASE token = "done"        -> DONE
      [] token = "in progress" -> IN_PROGRESS
      [] token = "todo"        -> TODO
      [] token = "blocked"     -> BLOCKED
      [] token = "review"      -> REVIEW

NoEffect == [kind |-> "none"]

SummarizeBranch(ts) ==
    LET total    == Len(ts)
        done     == Count(SelectSeq(ts, LAMBDA t : t.status = DONE))
        blocked  == Count(SelectSeq(ts, LAMBDA t : t.status = BLOCKED))
        critical == Count(SelectSeq(ts, LAMBDA t : t.riskLevel = CRITICAL))
    IN  [intent |-> "Summarize",
         msg    |-> [role |-> "ai", type |-> "kpi",
                     content |-> "Here is your real-time project snapshot:",
                     data |-> [total |-> total, done |-> done, blocked |-> blocked,
                               critical |-> critical,
                               progress |-> Progress(done, total)]],
         effect |-> NoEffect]

\* Variant of RiskBranch that answers with a task list even when it is empty
RiskBranch_AlwaysList(ts) ==
    LET riskyTasks == SelectSeq(ts, LAMBDA t : t.riskLevel = HIGH \/ t.riskLevel = CRITICAL)
    IN  [intent |-> "RiskQuery",
         msg    |-> [role |-> "ai", type |-> "task-list",
                     content |-> "I found " \o NatToString(Len(riskyTasks))
                                 \o " tasks that require attention.",
                     data |-> riskyTasks],
         effect |-> NoEffect]

RiskBranch(ts) ==
    LET riskyTasks == SelectSeq(ts, LAMBDA t : t.riskLevel = HIGH \/ t.riskLevel = CRITICAL)
    IN  [intent |-> "RiskQuery",
         msg    |-> IF Len(riskyTasks) > 0
                    THEN [role |-> "ai", type |-> "task-list",
                          content |-> "I found " \o NatToString(Len(riskyTasks))
                                      \o " tasks that require attention.",
                          data |-> riskyTasks]
                    ELSE [role |-> "ai", type |-> "success",
                          content |-> "Great news! No high-risk items detected."],
         effect |-> NoEffect]

WorkloadBranch(ts) ==
    LET chartData == SortBusiest(WorkloadEntries(ts))
        busiest   == IF Len(chartData) > 0 THEN chartData[1].name ELSE "No one"
    IN  [intent |-> "WorkloadQuery",
         msg    |-> [role |-> "ai", type |-> "chart",
                     content |-> "According to active tasks, **" \o busiest
                                 \o "** has the highest workload.",
                     data |-> chartData],
         effect |-> NoEffect]

\* rnd is the value of Math.floor(Math.random() * 9999)
CreateBranch(input, rnd) ==
    LET taskName == ExtractTaskName(input)
        newTask  == Task("AI-" \o NatToString(rnd), Capitalize(taskName), "AI Agent",
                         TODO, LOW,
                         "Created automatically by AI Agent based on user command.")
    IN  [intent |-> "CreateTask",
         msg    |-> [role |-> "ai", type |-> "success",
                     content |-> "Created task \"" \o newTask.name \o "\"",
                     data |-> newTask],
         effect |-> [kind |-> "create", task |-> newTask]]

\* Variant of UpdateBranch that reports success for an unresolved reference
UpdateBranch_Unchecked(lowerInput, ts) ==
    LET match       == MatchUpdate(lowerInput)
        taskQuery   == Trim(match.g1)
        newStatus   == statusMap(Trim(match.g2))
    IN  [intent |-> "UpdateStatus",
         msg    |-> [role |-> "ai", type |-> "success",
                     content |-> "Updated \"" \o taskQuery \o "\" to " \o newStatus],
         effect |-> [kind |-> "update", id |-> taskQuery,
                     updates |-> [status |-> newStatus]]]

UpdateBranch(lowerInput, ts) ==
    LET match       == MatchUpdate(lowerInput)
        taskQuery   == Trim(match.g1)
        statusQuery == Trim(match.g2)
        targetTask  == findTaskFuzzy(ts, taskQuery)
        newStatus   == statusMap(statusQuery)
    IN  IF targetTask # Undefined
        THEN [intent |-> "UpdateStatus",
              msg    |-> [role |-> "ai", type |-> "success",
                          content |-> "Updated \"" \o targetTask.name \o "\" to "
                                      \o newStatus,
                          data |-> Merge(targetTask, [status |-> newStatus])],
              effect |-> [kind |-> "update", id |-> targetTask.id,
                          updates |-> [status |-> newStatus]]]
        ELSE [intent |-> "UpdateStatus",
              msg    |-> [role |-> "ai", type |-> "text",
                          content |-> "I couldn't find a task matching \""
                                      \o taskQuery \o "\"."],
              effect |-> NoEffect]

FlowBranch ==
    [intent |-> "GenerateFlow",
     msg    |-> [role |-> "ai", type |-> "flow",
                 content |-> "I've analyzed the critical path and generated this Mermaid flow:",
                 data |-> <<"Start", "Plan", "Dev", "Review", "QA", "Deploy">>],
     effect |-> NoEffect]

\* Variant of FallbackBranch that files the input it does not understand as
\* a task
FallbackBranch_Creates ==
    [intent |-> "Unrecognized",
     msg    |-> [role |-> "ai", type |-> "text",
                 content |-> "I can help with project management tasks. Try asking for a 'Summary' or 'High risk tasks'."],
     effect |-> [kind |-> "create",
                 task |-> Task("AI-0", "New Task", "AI Agent", TODO, LOW, "")]]

FallbackBranch ==
    [intent |-> "Unrecognized",
     msg    |-> [role |-> "ai", type |-> "text",
                 content |-> "I can help with project management tasks. Try asking for a 'Summary' or 'High risk tasks'."],
     effect |-> NoEffect]

\* The if / else-if cascade: the branch taken, the response message and the
\* store call it makes, for the input and the task list the callback closed
\* over
\* Variant of Respond that tests the create rule before the query rules
Respond_CreateFirst(input, ts, rnd) ==
    LET lowerInput == ToLowerCase(input)
    IN  IF TestCreate(lowerInput) THEN CreateBranch(input, rnd)
        ELSE IF TestAny(lowerInput, SummaryWords) THEN SummarizeBranch(ts)
        ELSE IF TestAny(lowerInput, RiskWords) THEN RiskBranch(ts)
        ELSE IF TestAny(lowerInput, WorkloadWords) THEN WorkloadBranch(ts)
        ELSE IF MatchUpdate(lowerInput) # Undefined THEN UpdateBranch(lowerInput, ts)
        ELSE IF TestAny(lowerInput, FlowWords) THEN FlowBranch
        ELSE FallbackBranch

Respond(input, ts, rnd) ==
    LET lowerInput == ToLowerCase(input)
    IN  IF TestAny(lowerInput, SummaryWords) THEN SummarizeBranch(ts)
        ELSE IF TestAny(lowerInput, RiskWords) THEN RiskBranch(ts)
        ELSE IF TestAny(lowerInput, WorkloadWords) THEN WorkloadBranch(ts)
        ELSE IF TestCreate(lowerInput) THEN CreateBranch(input, rnd)
        ELSE IF MatchUpdate(lowerInput) # Undefined THEN UpdateBranch(lowerInput, ts)
        ELSE IF TestAny(lowerInput, FlowWords) THEN FlowBranch
        ELSE FallbackBranch

-----------------------------------------------------------------------------
(* WorkspaceService: localStorage helpers *)

NoItem == [present |-> FALSE, items |-> << >>]

\* loadTasks: the stored list, or DEFAULT_TASKS when the key is absent
loadTasks(st) == IF st.present THEN st.items ELSE DEFAULT_TASKS

\* saveTasks: the storage after localStorage.setItem
saveTasks(ts) == [present |-> TRUE, items |-> ts]

\* fetchTasks, after its delay: the list returned and the storage left behind
fetchTasksStorage(st) == IF st.present THEN st ELSE saveTasks(loadTasks(st))

\* createTask, after its delay
createTaskStorage(st, task) == saveTasks(Append(loadTasks(st), task))

\* syncTaskUpdate (no delay: the body runs within the caller's step)
syncTaskUpdateStorage(st, taskId, updates) ==
    LET currentTasks == loadTasks(st)
    IN  saveTasks([i \in 1..Len(currentTasks) |->
                     IF currentTasks[i].id = taskId
                     THEN Merge(currentTasks[i], updates) ELSE currentTasks[i]])

\* bulkSyncUpdate, after its delay
bulkSyncUpdateStorage(st, taskIds, updates) ==
    LET currentTasks == loadTasks(st)
    IN  saveTasks([i \in 1..Len(currentTasks) |->
                     IF currentTasks[i].id \in taskIds
                     THEN Merge(currentTasks[i], updates) ELSE currentTasks[i]])

-----------------------------------------------------------------------------
(* App: the in-memory store *)

\* prev.map(t => t.id === taskId ? { ...t, ...updates } : t)
\* Variant of MapUpdate in which the fields of the stored task win
MapUpdate_PrevWins(prev, taskId, updates) ==
    [i \in 1..Len(prev) |->
        IF prev[i].id = taskId THEN Merge(updates, prev[i]) ELSE prev[i]]

\* Variant of MapUpdate that replaces the task by a blank one carrying the
\* updates
MapUpdate_Replace(prev, taskId, updates) ==
    [i \in 1..Len(prev) |->
        IF prev[i].id = taskId
        THEN Merge(Task(prev[i].id, "New Task", "Unassigned", TODO, LOW, ""), updates)
        ELSE prev[i]]

MapUpdate(prev, taskId, updates) ==
    [i \in 1..Len(prev) |->
        IF prev[i].id = taskId THEN Merge(prev[i], updates) ELSE prev[i]]

\* Variant of MapBulkUpdate that applies the updates to every task
MapBulkUpdate_All(prev, ids, updates) ==
    [i \in 1..Len(prev) |-> Merge(prev[i], updates)]

\* prev.map(t => ids.includes(t.id) ? { ...t, ...updates } : t)
MapBulkUpdate(prev, ids, updates) ==
    [i \in 1..Len(prev) |->
        IF prev[i].id \in ids THEN Merge(prev[i], updates) ELSE prev[i]]

\* filteredTasks: what every view, the assistant included, receives as tasks
FilterTasks(ts, q) ==
    LET lq == ToLowerCase(q)
    IN  SelectSeq(ts, LAMBDA t :
            \/ Includes(ToLowerCase(t.name), lq)
            \/ Includes(ToLowerCase(t.assignee), lq)
            \/ Includes(ToLowerCase(t.id), lq)
            \/ Includes(ToLowerCase(t.description), lq))

filteredTasks == FilterTasks(tasks, searchQuery)

Ids(ts) == {ts[i].id : i \in 1..Len(ts)}

\* The tasks a view may still name: the flow editor keeps the nodes, and the
\* list view the selection, of tasks that have left the list it is given
KnownIds ==
    Ids(tasks) \cup Ids(loadTasks(storage))
    \cup {timers[i].payload.id : i \in {j \in 1..Len(timers) : timers[j].kind = "create"}}

-----------------------------------------------------------------------------
(* Timers: setTimeout callbacks, with the time left in units of 100 ms *)

Ticks(ms) == ms \div 100

Timer(kind, ms, payload) == [kind |-> kind, rem |-> Ticks(ms), payload |-> payload]

\* Variant of DueTimer that runs the callback registered last among those due
DueTimer_Latest ==
    LET D == {i \in 1..Len(timers) : timers[i].rem = 0}
    IN  IF D = {} THEN 0 ELSE Max(D)

\* The callback the event loop runs next: the first registered among those
\* whose time has come; 0 when none is due
DueTimer ==
    LET D == {i \in 1..Len(timers) : timers[i].rem = 0}
    IN  IF D = {} THEN 0 ELSE Min(D)

Due(kind) == DueTimer # 0 /\ timers[DueTimer].kind = kind

RemoveAt(seq, i) == SubSeq(seq, 1, i - 1) \o SubSeq(seq, i + 1, Len(seq))

\* Time passes by 100 ms; no callback is overdue
Tick ==
    /\ timers # << >>
    /\ DueTimer = 0
    /\ timers' = [i \in 1..Len(timers) |-> [timers[i] EXCEPT !.rem = @ - 1]]
    /\ last' = [op |-> "tick"]
    /\ UNCHANGED <<tasks, storage, loading, syncing, searchQuery, messages,
                   isTyping, isOpen, budget, probe>>

-----------------------------------------------------------------------------
(* Bounds and the inputs the user's operations are drawn from *)

\* User operations (submits, edits, syncs, searches) in one run
MaxOps == 2

\* Math.floor(Math.random() * 9999) is drawn from 0..RandRange-1
RandRange == 2

\* What the user types into the assistant or picks among its suggestions
Commands ==
    {"Summarize project status", "create task for Landing Page redesign",
     "mark TSK-003 as done", "mark Nonexistent Task as done",
     "set landing to review", "  "}

\* What the user types into the search box
SearchQueries == {"", "deploy"}

\* The statuses, names and assignees the views' edits are drawn from
OpStatuses  == {DONE, REVIEW}
OpEdits     == {[name |-> "Landing zone"], [assignee |-> "Bob Arch"]}

\* The tasks the user's direct edits touch: a seed task and one created in
\* the flow editor
TouchedIds == {"TSK-003", "TSK-0"}

-----------------------------------------------------------------------------
(* App: handlers *)

\* useEffect init / handleSync, once fetchTasks' delay has passed: the list is
\* read from storage and replaces the in-memory list
InitLoadDone ==
    /\ Due("init")
    /\ tasks' = loadTasks(storage)
    /\ storage' = fetchTasksStorage(storage)
    /\ loading' = FALSE
    /\ timers' = RemoveAt(timers, DueTimer)
    /\ last' = [op |-> "initDone"]
    /\ UNCHANGED <<syncing, searchQuery, messages, isTyping, isOpen, budget, probe>>

handleSync ==
    /\ ~loading
    /\ budget > 0
    /\ budget' = budget - 1
    /\ syncing' = TRUE
    /\ timers' = Append(timers, Timer("sync", 300, << >>))
    /\ last' = [op |-> "sync"]
    /\ UNCHANGED <<tasks, storage, loading, searchQuery, messages, isTyping,
                   isOpen, probe>>

SyncDone ==
    /\ Due("sync")
    /\ tasks' = loadTasks(storage)
    /\ storage' = fetchTasksStorage(storage)
    /\ syncing' = FALSE
    /\ timers' = RemoveAt(timers, DueTimer)
    /\ last' = [op |-> "syncDone"]
    /\ UNCHANGED <<loading, searchQuery, messages, isTyping, isOpen, budget, probe>>

\* handleTaskCreate: the optimistic append and the call of createTask, whose
\* write follows after its delay
TaskCreateEffect(ts, tm, newTask) ==
    [tasks  |-> Append(ts, newTask),
     timers |-> Append(tm, Timer("create", 200, newTask))]

\* handleTaskChange / handleTaskUpdate: the optimistic map and the call of
\* syncTaskUpdate, which writes at once
TaskChangeEffect(ts, st, taskId, updates) ==
    [tasks   |-> MapUpdate(ts, taskId, updates),
     storage |-> syncTaskUpdateStorage(st, taskId, updates)]

\* handleBulkUpdate: the optimistic map and the call of bulkSyncUpdate
BulkUpdateEffect(ts, tm, ids, updates) ==
    [tasks  |-> MapBulkUpdate(ts, ids, updates),
     timers |-> Append(tm, Timer("bulk", 400, [ids |-> ids, updates |-> updates]))]

\* WorkspaceService.createTask, after its delay
CreatePersisted ==
    /\ Due("create")
    /\ storage' = createTaskStorage(storage, timers[DueTimer].payload)
    /\ timers' = RemoveAt(timers, DueTimer)
    /\ last' = [op |-> "createPersisted", task |-> timers[DueTimer].payload]
    /\ UNCHANGED <<tasks, loading, syncing, searchQuery, messages, isTyping,
                   isOpen, budget, probe>>

\* WorkspaceService.bulkSyncUpdate, after its delay
BulkPersisted ==
    /\ Due("bulk")
    /\ storage' = bulkSyncUpdateStorage(storage, timers[DueTimer].payload.ids,
                                        timers[DueTimer].payload.updates)
    /\ timers' = RemoveAt(timers, DueTimer)
    /\ last' = [op |-> "bulkPersisted", ids |-> timers[DueTimer].payload.ids,
                updates |-> timers[DueTimer].payload.updates]
    /\ UNCHANGED <<tasks, loading, syncing, searchQuery, messages, isTyping,
                   isOpen, budget, probe>>

\* The search box
setSearchQuery ==
    /\ ~loading
    /\ budget > 0
    /\ \E q \in SearchQueries :
        /\ q # searchQuery
        /\ searchQuery' = q
    /\ budget' = budget - 1
    /\ last' = [op |-> "search"]
    /\ UNCHANGED <<tasks, storage, loading, syncing, messages, isTyping, isOpen,
                   timers, probe>>

-----------------------------------------------------------------------------
(* Views calling the store directly *)

\* FlowEditor.handleAddNode -> handleTaskCreate
handleAddNode ==
    /\ ~loading
    /\ budget > 0
    /\ \E rnd \in 0..(RandRange - 1) :
        LET newTask == Task("TSK-" \o NatToString(rnd), "New Task", "Unassigned",
                            TODO, LOW, "Created via Flow Editor")
            eff     == TaskCreateEffect(tasks, timers, newTask)
        IN  /\ tasks' = eff.tasks
            /\ timers' = eff.timers
            /\ last' = [op |-> "create", task |-> newTask]
    /\ budget' = budget - 1
    /\ UNCHANGED <<storage, loading, syncing, searchQuery, messages, isTyping,
                   isOpen, probe>>

\* KanbanBoard (drop, quick buttons) -> handleTaskUpdate(taskId, newStatus)
handleTaskUpdate ==
    /\ ~loading
    /\ budget > 0
    /\ \E taskId \in Ids(filteredTasks) \cap TouchedIds, newStatus \in OpStatuses :
        LET eff == TaskChangeEffect(tasks, storage, taskId, [status |-> newStatus])
        IN  /\ tasks' = eff.tasks
            /\ storage' = eff.storage
            /\ last' = [op |-> "update", id |-> taskId,
                        updates |-> [status |-> newStatus]]
    /\ budget' = budget - 1
    /\ UNCHANGED <<loading, syncing, searchQuery, messages, isTyping, isOpen,
                   timers, probe>>

\* FlowEditor.handleInputChange -> handleTaskChange(taskId, {[field]: value})
handleInputChange ==
    /\ ~loading
    /\ budget > 0
    /\ \E taskId \in KnownIds \cap TouchedIds, updates \in OpEdits :
        LET eff == TaskChangeEffect(tasks, storage, taskId, updates)
        IN  /\ tasks' = eff.tasks
            /\ storage' = eff.storage
            /\ last' = [op |-> "update", id |-> taskId, updates |-> updates]
    /\ budget' = budget - 1
    /\ UNCHANGED <<loading, syncing, searchQuery, messages, isTyping, isOpen,
                   timers, probe>>

\* TaskListView.handleBulkStatusChange -> handleBulkUpdate(ids, {status})
handleBulkStatusChange ==
    /\ ~loading
    /\ budget > 0
    /\ \E ids \in SUBSET (KnownIds \cap TouchedIds), status \in OpStatuses :
        /\ ids # {}
        /\ LET eff == BulkUpdateEffect(tasks, timers, ids, [status |-> status])
           IN  /\ tasks' = eff.tasks
               /\ timers' = eff.timers
               /\ last' = [op |-> "bulk", ids |-> ids, updates |-> [status |-> status]]
    /\ budget' = budget - 1
    /\ UNCHANGED <<storage, loading, syncing, searchQuery, messages, isTyping,
                   isOpen, probe>>

-----------------------------------------------------------------------------
(* AIAssistant: the session *)

Greeting ==
    [role |-> "ai", type |-> "text",
     content |-> "Hello! I'm your PM Command Agent. I'm connected to your workspace live data."]

\* Variant of SendMessage that returns early for the empty text alone
SendMessage_Untrimmed(texts) ==
    /\ ~loading
    /\ isOpen
    /\ budget > 0
    /\ budget' = budget - 1
    /\ \E text \in texts, seen \in {filteredTasks} :
        IF text = ""
        THEN /\ last' = [op |-> "submit", text |-> text, accepted |-> FALSE]
             /\ UNCHANGED <<messages, isTyping, timers>>
        ELSE /\ messages' = Append(messages,
                                   [role |-> "user", type |-> "text", content |-> text])
             /\ isTyping' = TRUE
             /\ timers' = Append(timers,
                                 Timer("ai", 800, [input |-> text, tasks |-> seen]))
             /\ last' = [op |-> "submit", text |-> text, accepted |-> TRUE]
    /\ UNCHANGED <<tasks, storage, loading, syncing, searchQuery, isOpen, probe>>

\* handleSendMessage(text): nothing for a blank text; otherwise the user's
\* message is appended, the typing flag set and processAIResponse called,
\* which registers the callback (closing over this render's tasks)
SendMessage(texts) ==
    /\ ~loading
    /\ isOpen
    /\ budget > 0
    /\ budget' = budget - 1
    /\ \E text \in texts, seen \in {filteredTasks} :
        IF Trim(text) = ""
        THEN /\ last' = [op |-> "submit", text |-> text, accepted |-> FALSE]
             /\ UNCHANGED <<messages, isTyping, timers>>
        ELSE /\ messages' = Append(messages,
                                   [role |-> "user", type |-> "text", content |-> text])
             /\ isTyping' = TRUE
             /\ timers' = Append(timers,
                                 Timer("ai", 800, [input |-> text, tasks |-> seen]))
             /\ last' = [op |-> "submit", text |-> text, accepted |-> TRUE]
    /\ UNCHANGED <<tasks, storage, loading, syncing, searchQuery, isOpen, probe>>

handleSendMessage == SendMessage(Commands)

\* Variant of ApplyEffect in which a created task enters the in-memory list
\* only with its write
ApplyEffect_Deferred(effect, ts, st, tm) ==
    CASE effect.kind = "create" ->
            [tasks   |-> ts,
             storage |-> st,
             timers  |-> TaskCreateEffect(ts, tm, effect.task).timers]
      [] effect.kind = "update" ->
            [tasks   |-> TaskChangeEffect(ts, st, effect.id, effect.updates).tasks,
             storage |-> TaskChangeEffect(ts, st, effect.id, effect.updates).storage,
             timers  |-> tm]
      [] OTHER -> [tasks |-> ts, storage |-> st, timers |-> tm]

\* What the store call of a response does to the in-memory list, the storage
\* and the timers: onTaskCreate = handleTaskCreate, onTaskUpdate =
\* handleTaskChange
ApplyEffect(effect, ts, st, tm) ==
    CASE effect.kind = "create" ->
            [tasks   |-> TaskCreateEffect(ts, tm, effect.task).tasks,
             storage |-> st,
             timers  |-> TaskCreateEffect(ts, tm, effect.task).timers]
      [] effect.kind = "update" ->
            [tasks   |-> TaskChangeEffect(ts, st, effect.id, effect.updates).tasks,
             storage |-> TaskChangeEffect(ts, st, effect.id, effect.updates).storage,
             timers  |-> tm]
      [] OTHER -> [tasks |-> ts, storage |-> st, timers |-> tm]

\* The values Math.random may take in the callback: it is called by the
\* Create Task branch alone
RandomDraws(input, ts) ==
    IF Respond(input, ts, 0).intent = "CreateTask" THEN 0..(RandRange - 1) ELSE {0}

\* Variant of Dispatch that leaves the typing flag set
Dispatch_KeepsTyping ==
    /\ Due("ai")
    /\ \E job \in {timers[DueTimer].payload} :
       \E rnd \in RandomDraws(job.input, job.tasks) :
       \E res \in {Respond(job.input, job.tasks, rnd)} :
       \E eff \in {ApplyEffect(res.effect, tasks, storage, RemoveAt(timers, DueTimer))} :
            /\ tasks' = eff.tasks
            /\ storage' = eff.storage
            /\ timers' = eff.timers
            /\ messages' = Append(messages, res.msg)
            /\ last' = [op |-> "dispatch", input |-> job.input, seen |-> job.tasks,
                        intent |-> res.intent, effect |-> res.effect]
    /\ UNCHANGED <<loading, syncing, searchQuery, isTyping, isOpen, budget, probe>>

\* The setTimeout callback of processAIResponse, 800 ms after the submit
Dispatch ==
    /\ Due("ai")
    /\ \E job \in {timers[DueTimer].payload} :
       \E rnd \in RandomDraws(job.input, job.tasks) :
       \E res \in {Respond(job.input, job.tasks, rnd)} :
       \E eff \in {ApplyEffect(res.effect, tasks, storage, RemoveAt(timers, DueTimer))} :
            /\ tasks' = eff.tasks
            /\ storage' = eff.storage
            /\ timers' = eff.timers
            /\ messages' = Append(messages, res.msg)
            /\ isTyping' = FALSE
            /\ last' = [op |-> "dispatch", input |-> job.input, seen |-> job.tasks,
                        intent |-> res.intent, effect |-> res.effect]
    /\ UNCHANGED <<loading, syncing, searchQuery, isOpen, budget, probe>>

\* The Clear Chat button: setMessages([])
ClearChat ==
    /\ ~loading
    /\ isOpen
    /\ messages # << >>
    /\ messages' = << >>
    /\ last' = [op |-> "clear"]
    /\ UNCHANGED <<tasks, storage, loading, syncing, searchQuery, isTyping, isOpen,
                   timers, budget, probe>>

\* The floating button: setIsOpen(true)
OpenPanel ==
    /\ ~loading
    /\ ~isOpen
    /\ isOpen' = TRUE
    /\ last' = [op |-> "open"]
    /\ UNCHANGED <<tasks, storage, loading, syncing, searchQuery, messages,
                   isTyping, timers, budget, probe>>

\* Variant of ClosePanel that drops the callbacks of the commands still to be
\* answered
ClosePanel_Cancels ==
    /\ ~loading
    /\ isOpen
    /\ isOpen' = FALSE
    /\ timers' = SelectSeq(timers, LAMBDA t : t.kind # "ai")
    /\ last' = [op |-> "close"]
    /\ UNCHANGED <<tasks, storage, loading, syncing, searchQuery, messages,
                   isTyping, budget, probe>>

\* The close button: setIsOpen(false)
ClosePanel ==
    /\ ~loading
    /\ isOpen
    /\ isOpen' = FALSE
    /\ last' = [op |-> "close"]
    /\ UNCHANGED <<tasks, storage, loading, syncing, searchQuery, messages,
                   isTyping, timers, budget, probe>>

-----------------------------------------------------------------------------
(* The application: mounted, hydrating from an empty localStorage *)

NoProbe == [kind |-> "none"]

Init ==
    /\ tasks = << >>
    /\ storage = NoItem
    /\ loading = TRUE
    /\ syncing = FALSE
    /\ searchQuery = ""
    /\ messages = << Greeting >>
    /\ isTyping = FALSE
    /\ isOpen = FALSE
    /\ timers = << Timer("init", 300, << >>) >>
    /\ budget = MaxOps
    /\ last = [op |-> "mount"]
    /\ probe = NoProbe

\* The assistant session over the store
Next ==
    \/ Tick
    \/ InitLoadDone
    \/ handleSync
    \/ SyncDone
    \/ CreatePersisted
    \/ setSearchQuery
    \/ handleSendMessage
    \/ Dispatch
    \/ OpenPanel

Spec == Init /\ [][Next]_vars

\* WF_vars(Dispatch), with ENABLED <<Dispatch>>_vars written out: the
\* callback is enabled exactly when it is the one due, and it always removes
\* its timer
DispatchRuns == []<>(~ Due("ai")) \/ []<><<Dispatch>>_vars

\* The event loop lets time pass and runs every callback that is due
TimersRun ==
    /\ WF_vars(Tick)
    /\ WF_vars(InitLoadDone)
    /\ WF_vars(SyncDone)
    /\ WF_vars(CreatePersisted)
    /\ DispatchRuns

\* The commands of the runs in which progress is checked
ChatCommands ==
    {"Summarize project status", "create task for Landing Page redesign", "  "}

Chat == SendMessage(ChatCommands)

LiveNext ==
    \/ Tick
    \/ InitLoadDone
    \/ handleSync
    \/ SyncDone
    \/ CreatePersisted
    \/ setSearchQuery
    \/ Chat
    \/ Dispatch
    \/ OpenPanel

\* The assistant session over the store, with the event loop making progress
LiveSpec == Init /\ [][LiveNext]_vars /\ TimersRun

\* One command per branch of the cascade, as the user may type them
AskCommands ==
    {"Summarize project status", "Show high risk tasks", "Who is busy?",
     "Generate a flow", "hello there", "create task for Landing Page redesign",
     "mark TSK-003 as done"}

Ask == SendMessage(AskCommands)

AskNext ==
    \/ Tick
    \/ InitLoadDone
    \/ CreatePersisted
    \/ Ask
    \/ Dispatch
    \/ OpenPanel

\* The assistant session with commands of every kind
AskSpec == Init /\ [][AskNext]_vars

\* The assistant session in which the panel is closed and the chat cleared
\* while commands that change the store are being answered, with the event
\* loop making progress
LeaveCommands == {"create task for Landing Page redesign"}

Order == SendMessage(LeaveCommands)

LeaveNext ==
    \/ Tick
    \/ InitLoadDone
    \/ CreatePersisted
    \/ Order
    \/ Dispatch
    \/ OpenPanel
    \/ ClosePanel
    \/ ClearChat

\* Commands submitted in one run of that session
MaxOrders == 1

\* The application mounted, hydrating from an empty localStorage
LeaveInit ==
    /\ tasks = << >>
    /\ storage = NoItem
    /\ loading = TRUE
    /\ syncing = FALSE
    /\ searchQuery = ""
    /\ messages = << Greeting >>
    /\ isTyping = FALSE
    /\ isOpen = FALSE
    /\ timers = << Timer("init", 300, << >>) >>
    /\ budget = MaxOrders
    /\ last = [op |-> "mount"]
    /\ probe = NoProbe

LeaveSpec == LeaveInit /\ [][LeaveNext]_vars /\ TimersRun

\* What the input field may hold when Enter is pressed: nothing, blanks or a
\* command
EnterTexts ==
    {"", " ", "  ", "Summarize project status",
     "create task for Landing Page redesign"}

Enter == SendMessage(EnterTexts)

EnterNext ==
    \/ Tick
    \/ InitLoadDone
    \/ CreatePersisted
    \/ Enter
    \/ Dispatch
    \/ OpenPanel

\* The assistant session with Enter pressed on any content of the field
EnterSpec == Init /\ [][EnterNext]_vars

\* The assistant session with all the buttons of its panel
SessionNext ==
    \/ Next
    \/ ClearChat
    \/ ClosePanel

SessionSpec == Init /\ [][SessionNext]_vars

\* The views' direct calls of the store
StoreNext ==
    \/ Tick
    \/ InitLoadDone
    \/ handleSync
    \/ SyncDone
    \/ CreatePersisted
    \/ BulkPersisted
    \/ setSearchQuery
    \/ handleAddNode
    \/ handleTaskUpdate
    \/ handleInputChange
    \/ handleBulkStatusChange

StoreSpec == Init /\ [][StoreNext]_vars

\* The whole application: the assistant and the views over the store
AppNext ==
    \/ Next
    \/ StoreNext

AppSpec == Init /\ [][AppNext]_vars

-----------------------------------------------------------------------------
(* The store with a failing persistence backend: saveTasks throws (for
   instance localStorage.setItem on a full quota), the service call rejects
   and the rejection leaves the handler at its await *)

\* Variant of AfterRejection that rolls the in-memory list back to the
\* persisted one
AfterRejection_Refetch(ts) == loadTasks(storage)

\* The in-memory list once the awaited service call has rejected: no handler
\* has a catch clause, so the list stays as the optimistic setTasks left it
AfterRejection(ts) == ts

\* WorkspaceService.createTask rejects after its delay
CreateRejected ==
    /\ Due("create")
    /\ tasks' = AfterRejection(tasks)
    /\ timers' = RemoveAt(timers, DueTimer)
    /\ last' = [op |-> "rejected", call |-> "create", task |-> timers[DueTimer].payload]
    /\ UNCHANGED <<storage, loading, syncing, searchQuery, messages, isTyping,
                   isOpen, budget, probe>>

\* WorkspaceService.bulkSyncUpdate rejects after its delay
BulkRejected ==
    /\ Due("bulk")
    /\ tasks' = AfterRejection(tasks)
    /\ timers' = RemoveAt(timers, DueTimer)
    /\ last' = [op |-> "rejected", call |-> "bulk",
                ids |-> timers[DueTimer].payload.ids,
                updates |-> timers[DueTimer].payload.updates]
    /\ UNCHANGED <<storage, loading, syncing, searchQuery, messages, isTyping,
                   isOpen, budget, probe>>

\* handleTaskUpdate(taskId, newStatus) whose syncTaskUpdate call rejects
UpdateRejected ==
    /\ ~loading
    /\ budget > 0
    /\ \E taskId \in Ids(filteredTasks) \cap TouchedIds, newStatus \in OpStatuses :
        /\ tasks' = AfterRejection(MapUpdate(tasks, taskId, [status |-> newStatus]))
        /\ last' = [op |-> "rejected", call |-> "update", id |-> taskId,
                    updates |-> [status |-> newStatus]]
    /\ budget' = budget - 1
    /\ UNCHANGED <<storage, loading, syncing, searchQuery, messages, isTyping,
                   isOpen, timers, probe>>

FaultNext ==
    \/ StoreNext
    \/ CreateRejected
    \/ BulkRejected
    \/ UpdateRejected

FaultSpec == Init /\ [][FaultNext]_vars

\* The assistant session over the failing backend
AskFaultNext ==
    \/ AskNext
    \/ CreateRejected

AskFaultSpec == Init /\ [][AskFaultNext]_vars

-----------------------------------------------------------------------------
(* The interpreter alone: processAIResponse's cascade over composed inputs *)

appVars == <<tasks, storage, loading, syncing, searchQuery, messages, isTyping,
             isOpen, timers, budget, last>>

\* The application at rest over the seed data
AtRest ==
    /\ tasks = DEFAULT_TASKS
    /\ storage = saveTasks(DEFAULT_TASKS)
    /\ loading = FALSE
    /\ syncing = FALSE
    /\ searchQuery = ""
    /\ messages = << Greeting >>
    /\ isTyping = FALSE
    /\ isOpen = TRUE
    /\ timers = << >>
    /\ budget = 0
    /\ last = [op |-> "mount"]

\* Phrases an input is composed of, joined by blanks
MaxPhrases == 3

Phrases ==
    {"create task", "add task", "new task", "for", "Landing Page", "priority",
     "mark TSK-003", "as done", "risk", "status", "who", "flow", ""}

InterpInit ==
    /\ AtRest
    /\ \E w \in Phrases :
        probe = [kind |-> "interp", input |-> w, n |-> 1, out |-> Undefined]

\* The user types on
TypePhrase ==
    /\ probe.out = Undefined
    /\ probe.n < MaxPhrases
    /\ \E w \in Phrases :
        probe' = [probe EXCEPT !.input = @ \o " " \o w, !.n = @ + 1]
    /\ UNCHANGED appVars

\* processAIResponse's callback on the input, over the seed data
Interpret ==
    /\ probe.out = Undefined
    /\ Trim(probe.input) # ""
    /\ \E rnd \in RandomDraws(probe.input, tasks) :
        probe' = [probe EXCEPT !.out = Respond(probe.input, tasks, rnd)]
    /\ UNCHANGED appVars

InterpNext == TypePhrase \/ Interpret

InterpSpec == InterpInit /\ [][InterpNext]_vars

-----------------------------------------------------------------------------
(* The resolver alone: findTaskFuzzy over composed task lists *)

MaxResolveTasks == 3

\* Tasks whose identifiers and names overlap: an identifier inside another
\* task's name, a shared identifier, names sharing a word
ResolvePool ==
    {Task("TSK-1", "Fix tsk-2 login", "Alice PM", TODO, LOW, ""),
     Task("TSK-2", "Landing Page", "Bob Arch", TODO, LOW, ""),
     Task("AI-7", "Login page", "AI Agent", TODO, LOW, ""),
     Task("TSK-2", "Other", "Eve QA", DONE, LOW, "")}

ResolveQueries == {"tsk-2", "TSK-2", "page", "LOGIN", "ai-7", "zzz"}

ResolveInit ==
    /\ AtRest
    /\ probe = [kind |-> "resolve", tasks |-> << >>, query |-> "", out |-> Undefined,
                done |-> FALSE]

AddResolveTask ==
    /\ ~probe.done
    /\ Len(probe.tasks) < MaxResolveTasks
    /\ \E t \in ResolvePool : probe' = [probe EXCEPT !.tasks = Append(@, t)]
    /\ UNCHANGED appVars

Resolve ==
    /\ ~probe.done
    /\ \E q \in ResolveQueries :
        probe' = [probe EXCEPT !.query = q, !.out = findTaskFuzzy(probe.tasks, q),
                               !.done = TRUE]
    /\ UNCHANGED appVars

ResolveNext == AddResolveTask \/ Resolve

ResolveSpec == ResolveInit /\ [][ResolveNext]_vars

-----------------------------------------------------------------------------
(* The Summarize branch alone, over composed task lists *)

MaxSummaryTasks == 6

SummaryPool ==
    {Task("T", "Task", "Alice PM", st, rl, "") :
        st \in {TODO, DONE, BLOCKED}, rl \in {LOW}}

SummaryInit ==
    /\ AtRest
    /\ probe = [kind |-> "summary", tasks |-> << >>, out |-> Undefined]

AddSummaryTask ==
    /\ probe.out = Undefined
    /\ Len(probe.tasks) < MaxSummaryTasks
    /\ \E t \in SummaryPool : probe' = [probe EXCEPT !.tasks = Append(@, t)]
    /\ UNCHANGED appVars

Summarize ==
    /\ probe.out = Undefined
    /\ probe' = [probe EXCEPT !.out = Respond("Summarize project status", probe.tasks, 0)]
    /\ UNCHANGED appVars

SummaryNext == AddSummaryTask \/ Summarize

SummarySpec == SummaryInit /\ [][SummaryNext]_vars

-----------------------------------------------------------------------------
(* The query branches (risk, workload) alone, over composed task lists *)

MaxQueryTasks == 4

QueryPool ==
    {Task("T-1", "Spec",   "Alice PM",    TODO,        LOW,      ""),
     Task("T-2", "Design", "Alice PM",    DONE,        HIGH,     ""),
     Task("T-3", "Build",  "Bob Arch",    IN_PROGRESS, CRITICAL, ""),
     Task("T-4", "Test",   "Alice Dev",   DONE,        LOW,      ""),
     Task("T-5", "Ship",   "Alice Dev",   BLOCKED,     MEDIUM,   ""),
     Task("T-6", "Plan",   "constructor", REVIEW,      LOW,      ""),
     Task("T-7", "Audit",  "__proto__",   TODO,        LOW,      "")}

Queries == {"Who is busy?", "Show high risk tasks"}

QueryInit ==
    /\ AtRest
    /\ probe = [kind |-> "query", tasks |-> << >>, input |-> "", out |-> Undefined]

AddQueryTask ==
    /\ probe.out = Undefined
    /\ Len(probe.tasks) < MaxQueryTasks
    /\ \E t \in QueryPool : probe' = [probe EXCEPT !.tasks = Append(@, t)]
    /\ UNCHANGED appVars

Query ==
    /\ probe.out = Undefined
    /\ \E q \in Queries :
        probe' = [probe EXCEPT !.input = q, !.out = Respond(q, probe.tasks, 0)]
    /\ UNCHANGED appVars

QueryNext == AddQueryTask \/ Query

QuerySpec == QueryInit /\ [][QueryNext]_vars

-----------------------------------------------------------------------------
(* processAIResponse's callback alone: one command of each kind over composed
   task lists *)

MaxReplyTasks == 3

\* One input per branch of the cascade; the update command names a task of
\* QueryPool, which the list may or may not hold
ReplyInputs ==
    {"Summarize project status", "Show high risk tasks", "Who is busy?",
     "create task for Landing Page redesign", "mark T-3 as done",
     "Generate a flow", "hello there"}

ReplyInit ==
    /\ AtRest
    /\ probe = [kind |-> "reply", tasks |-> << >>, input |-> "", out |-> Undefined]

AddReplyTask ==
    /\ probe.out = Undefined
    /\ Len(probe.tasks) < MaxReplyTasks
    /\ \E t \in QueryPool : probe' = [probe EXCEPT !.tasks = Append(@, t)]
    /\ UNCHANGED appVars

Reply ==
    /\ probe.out = Undefined
    /\ \E input \in ReplyInputs :
       \E rnd \in RandomDraws(input, probe.tasks) :
        probe' = [probe EXCEPT !.input = input,
                               !.out = Respond(input, probe.tasks, rnd)]
    /\ UNCHANGED appVars

ReplyNext == AddReplyTask \/ Reply

ReplySpec == ReplyInit /\ [][ReplyNext]_vars

-----------------------------------------------------------------------------
(* The resolver called repeatedly over one task list *)

\* Calls of findTaskFuzzy in one run
MaxLookups == 2

\* Variant of ResolveCall that takes the task found out of the list
ResolveCall_Consume(ts, query) ==
    [found |-> findTaskFuzzy(ts, query),
     tasks |-> SelectSeq(ts, LAMBDA t : t # findTaskFuzzy(ts, query))]

\* One call of findTaskFuzzy: the value returned and the task list it leaves
\* behind (Array.prototype.find reads the list and writes nothing)
ResolveCall(ts, query) ==
    [found |-> findTaskFuzzy(ts, query), tasks |-> ts]

LookupInit ==
    /\ AtRest
    /\ probe = [kind |-> "lookup", tasks |-> << >>, calls |-> << >>]

AddLookupTask ==
    /\ probe.calls = << >>
    /\ Len(probe.tasks) < MaxResolveTasks
    /\ \E t \in ResolvePool : probe' = [probe EXCEPT !.tasks = Append(@, t)]
    /\ UNCHANGED appVars

Lookup ==
    /\ Len(probe.calls) < MaxLookups
    /\ \E q \in ResolveQueries :
       \E res \in {ResolveCall(probe.tasks, q)} :
        probe' = [probe EXCEPT
                    !.tasks = res.tasks,
                    !.calls = Append(@, [query |-> q, before |-> probe.tasks,
                                         found |-> res.found, after |-> res.tasks])]
    /\ UNCHANGED appVars

LookupNext == AddLookupTask \/ Lookup

LookupSpec == LookupInit /\ [][LookupNext]_vars

-----------------------------------------------------------------------------
(* Properties *)

LastMessage == messages[Len(messages)]

\* No write of createTask or bulkSyncUpdate is waiting for its delay
NoPendingWrite == \A i \in 1..Len(timers) : timers[i].kind \notin {"create", "bulk"}

StoredIds == Ids(loadTasks(storage))

\* C1: right after handleTaskUpdate / handleTaskChange was called with an id
\* and a partial update, every in-memory task with that id carries the
\* updated fields (the new status), whatever the state of persistence.
C1_OptimisticUpdate ==
    last.op = "update" =>
        \A i \in 1..Len(tasks) :
            tasks[i].id = last.id =>
                \A f \in DOMAIN last.updates : tasks[i][f] = last.updates[f]

\* C1 witness: a status update has just been applied in memory to a task
\* whose creation has not been persisted yet
C1_Witness ==
    /\ last.op = "update"
    /\ "status" \in DOMAIN last.updates
    /\ \E i \in 1..Len(tasks) :
        tasks[i].id = last.id /\ tasks[i].status = last.updates.status
    /\ last.id \notin StoredIds
    /\ ~ NoPendingWrite

\* C2: whenever no persistence write is pending (and hydration is over), the
\* persisted collection equals the in-memory collection.
C2_NoLastingDivergence ==
    (~loading /\ NoPendingWrite) => loadTasks(storage) = tasks

\* The rule table of the classifier, in priority order
Cascade ==
    <<"Summarize", "RiskQuery", "WorkloadQuery", "CreateTask", "UpdateStatus",
      "GenerateFlow", "Unrecognized">>

\* Whether the trigger of rule k matches the lower-cased input s
Triggered(k, s) ==
    CASE k = 1 -> TestAny(s, SummaryWords)
      [] k = 2 -> TestAny(s, RiskWords)
      [] k = 3 -> TestAny(s, WorkloadWords)
      [] k = 4 -> TestCreate(s)
      [] k = 5 -> MatchUpdate(s) # Undefined
      [] k = 6 -> TestAny(s, FlowWords)
      [] OTHER -> TRUE

Interpreted == probe.kind = "interp" /\ probe.out # Undefined

\* C3: the intent is that of the lowest-numbered rule whose trigger matches;
\* an input with a risk word is RiskQuery exactly when it has no summary word.
C3_FirstMatchWins ==
    Interpreted =>
        LET s == ToLowerCase(probe.input)
        IN  /\ probe.out.intent = Cascade[Min({k \in 1..Len(Cascade) : Triggered(k, s)})]
            /\ TestAny(s, RiskWords) =>
                   (probe.out.intent = "RiskQuery" <=> ~ TestAny(s, SummaryWords))

\* C3 witness: an input with a risk word that also matches the create and
\* the workload rule was classified RiskQuery
C3_Witness ==
    /\ Interpreted
    /\ probe.out.intent = "RiskQuery"
    /\ TestCreate(ToLowerCase(probe.input))
    /\ TestAny(ToLowerCase(probe.input), WorkloadWords)

\* C4: a CreateTask dispatch appends exactly one task, with status Todo and
\* risk Low, whose identifier no other task of the collection carries.
C4_FreshIdentifier ==
    (last.op = "dispatch" /\ last.effect.kind = "create") =>
        /\ tasks[Len(tasks)] = last.effect.task
        /\ last.effect.task.status = TODO
        /\ last.effect.task.riskLevel = LOW
        /\ Cardinality({i \in 1..Len(tasks) : tasks[i].id = last.effect.task.id}) = 1

CreateForPrefix == "create task for "

\* C5: for "create task for <X>" the created task is named X with a capital
\* first character, letter case apart: neither the trigger phrase nor "for "
\* is part of the name (X not blank, without " priority" or a leading "task ").
C5_NameAfterFor ==
    (Interpreted /\ probe.out.intent = "CreateTask"
       /\ StartsAt(probe.input, CreateForPrefix, 1)) =>
        LET X    == Trim(SubSeq(probe.input, Len(CreateForPrefix) + 1, Len(probe.input)))
            name == probe.out.effect.task.name
        IN  (X # "" /\ ~ Includes(ToLowerCase(X), "priority")
               /\ ~ StartsAt(ToLowerCase(X), "task ", 1)) =>
                /\ ToLowerCase(name) = ToLowerCase(X)
                /\ CharAt(name, 1) = UpperChar(CharAt(X, 1))

\* C6: when the create rule matches and nothing follows the trigger phrase,
\* the created task is named "New Task".
C6_DefaultName ==
    (Interpreted /\ probe.out.intent = "CreateTask"
       /\ Trim(ToLowerCase(probe.input)) \in {"create task", "add task", "new task"}) =>
        probe.out.effect.task.name = "New Task"

\* C7: after the dispatch of "mark <T.id> as <s>" for a task T of the
\* collection, T has the status mapped from s and the response is a success
\* carrying T's name.
C7_MarkByIdentifier ==
    last.op = "dispatch" =>
        \A i \in 1..Len(tasks), tok \in StatusTokens :
            ToLowerCase(last.input) = "mark " \o ToLowerCase(tasks[i].id) \o " as " \o tok =>
                /\ tasks[i].status = statusMap(tok)
                /\ LastMessage.type = "success"
                /\ "data" \in DOMAIN LastMessage
                /\ LastMessage.data.name = tasks[i].name

\* The resolver found no task for the reference of an update command
ResolutionMiss(input, seen) ==
    LET m == MatchUpdate(ToLowerCase(input))
    IN  m # Undefined /\ findTaskFuzzy(seen, Trim(m.g1)) = Undefined

\* C8: a dispatch of an update command whose reference the resolver did not
\* resolve appends a plain text response and changes neither the in-memory
\* nor the persisted collection.
C8_ResolutionMiss ==
    [][(last'.op = "dispatch" /\ last'.intent = "UpdateStatus"
          /\ ResolutionMiss(last'.input, last'.seen)) =>
            /\ tasks' = tasks
            /\ storage' = storage
            /\ messages'[Len(messages')].type = "text"]_vars

\* C8 witness: "mark Nonexistent Task as done" was dispatched and not resolved
C8_Witness ==
    /\ last.op = "dispatch"
    /\ last.intent = "UpdateStatus"
    /\ ResolutionMiss(last.input, last.seen)
    /\ last.effect = NoEffect
    /\ LastMessage.type = "text"

\* C9: findTaskFuzzy returns the first task whose identifier equals the
\* reference (case-insensitively) if there is one, otherwise the first task
\* whose name contains it (case-insensitively), otherwise nothing.
C9_ResolutionOrder ==
    (probe.kind = "resolve" /\ probe.done) =>
        LET ts == probe.tasks
            q  == ToLowerCase(probe.query)
            I  == {i \in 1..Len(ts) : ToLowerCase(ts[i].id) = q}
            N  == {i \in 1..Len(ts) : Includes(ToLowerCase(ts[i].name), q)}
        IN  /\ I # {} => probe.out = ts[Min(I)]
            /\ (I = {} /\ N # {}) => probe.out = ts[Min(N)]
            /\ (I = {} /\ N = {}) => probe.out = Undefined

\* C9 witness: the task returned matches by identifier although an earlier
\* task's name contains the reference
C9_Witness ==
    /\ probe.kind = "resolve" /\ probe.done
    /\ probe.out # Undefined
    /\ ToLowerCase(probe.out.id) = ToLowerCase(probe.query)
    /\ \E j \in 1..Len(probe.tasks) :
        /\ Includes(ToLowerCase(probe.tasks[j].name), ToLowerCase(probe.query))
        /\ ToLowerCase(probe.tasks[j].id) # ToLowerCase(probe.query)
        /\ \A i \in 1..j : probe.tasks[i] # probe.out

Summarized == probe.kind = "summary" /\ probe.out # Undefined

WorkloadAnswered ==
    probe.kind = "query" /\ probe.out # Undefined /\ probe.out.intent = "WorkloadQuery"

\* The indices of the tasks of ts that are not Done
Active(ts) == {i \in 1..Len(ts) : ts[i].status # DONE}

\* The number of tasks of ts that are not Done and assigned to a
Load(ts, a) == Cardinality({i \in Active(ts) : ts[i].assignee = a})

AllNumbers(series) == \A k \in 1..Len(series) : series[k].tasks.type = "number"

RECURSIVE SumCounts(_)
SumCounts(series) ==
    IF series = << >> THEN 0 ELSE series[1].tasks.value + SumCounts(Tail(series))

\* C11: the counts of the WorkloadQuery series are numbers that sum to the
\* number of tasks that are not Done; the series has one entry, with a count
\* of at least 1, for each assignee with a task that is not Done and none for
\* an assignee all of whose tasks are Done.
C11_WorkloadExcludesDone ==
    WorkloadAnswered =>
        LET ts     == probe.tasks
            series == probe.out.msg.data
        IN  /\ AllNumbers(series)
            /\ SumCounts(series) = Cardinality(Active(ts))
            /\ Len(series) = Cardinality({ts[i].assignee : i \in Active(ts)})
            /\ \A k \in 1..Len(series) : series[k].tasks.value >= 1

\* C12: the WorkloadQuery series is in non-increasing order of count and the
\* name reported is the first name of an assignee with the maximum number of
\* tasks that are not Done, or "No one" when every task is Done.
C12_WorkloadSorted ==
    WorkloadAnswered =>
        LET ts     == probe.tasks
            series == probe.out.msg.data
            top    == {FirstWord(ts[i].assignee) : i \in
                          {i \in Active(ts) : \A j \in Active(ts) :
                              Load(ts, ts[j].assignee) <= Load(ts, ts[i].assignee)}}
        IN  /\ AllNumbers(series)
            /\ \A k \in 1..(Len(series) - 1) :
                   series[k].tasks.value >= series[k + 1].tasks.value
            /\ \E name \in (IF Active(ts) = {} THEN {"No one"} ELSE top) :
                   probe.out.msg.content =
                       "According to active tasks, **" \o name
                           \o "** has the highest workload."

RiskAnswered ==
    probe.kind = "query" /\ probe.out # Undefined /\ probe.out.intent = "RiskQuery"

\* The indices of the tasks of ts whose risk level is High or Critical
Risky(ts) == {i \in 1..Len(ts) : ts[i].riskLevel \in {HIGH, CRITICAL}}

\* C13: RiskQuery answers with exactly the tasks whose risk level is High or
\* Critical, in collection order, in a task-list response when there is one,
\* and with a success response without a list when there is none.
C13_RiskList ==
    RiskAnswered =>
        LET ts  == probe.tasks
            msg == probe.out.msg
        IN  IF Risky(ts) = {}
            THEN msg.type = "success" /\ "data" \notin DOMAIN msg
            ELSE /\ msg.type = "task-list"
                 /\ Len(msg.data) = Cardinality(Risky(ts))
                 /\ \A i \in Risky(ts) :
                        msg.data[Cardinality({j \in Risky(ts) : j <= i})] = ts[i]

\* C13 witness: a collection with exactly one Critical task and no High task
\* among others was answered with a task list of that one task
C13_Witness ==
    /\ RiskAnswered
    /\ Len(probe.tasks) > 1
    /\ \E i \in 1..Len(probe.tasks) :
        /\ probe.tasks[i].riskLevel = CRITICAL
        /\ Risky(probe.tasks) = {i}
        /\ probe.out.msg.type = "task-list"
        /\ probe.out.msg.data = << probe.tasks[i] >>

\* C14: when the persistence call of a create, an update or a bulk update
\* rejects, the in-memory collection keeps the optimistic change: it is what
\* it is when the call succeeds.
C14_NoRollback ==
    [][last'.op = "rejected" =>
          tasks' = (IF last'.call = "update"
                    THEN MapUpdate(tasks, last'.id, last'.updates)
                    ELSE tasks)]_vars

\* C14 witness: the write of a created task was rejected; the task is in
\* memory and not in storage
C14_Witness ==
    /\ last.op = "rejected"
    /\ last.call = "create"
    /\ last.task.id \in KnownIds
    /\ last.task.id \notin StoredIds

\* C15: the message log is append-only: in every step the previous log is a
\* prefix of the new log.
C15_AppendOnly ==
    [][/\ Len(messages') >= Len(messages)
       /\ SubSeq(messages', 1, Len(messages)) = messages]_vars

\* The submitted commands whose response has not been appended yet
Outstanding == {i \in 1..Len(timers) : timers[i].kind = "ai"}

\* C16: the typing flag is set exactly when a submitted command has not had
\* its response appended yet.
C16_ComposingFlag == isTyping <=> Outstanding # {}

\* The messages of the log with the given role
ByRole(role) == {i \in 1..Len(messages) : messages[i].role = role}

\* The responses appended so far (the log starts with the greeting)
Responses == Cardinality(ByRole("ai")) - 1

\* C17: a submit of a non-blank text appends the user's message and sets
\* the typing flag in the same step; every submit is answered by exactly one
\* assistant message: a response step appends one message for one
\* outstanding command, each command is answered or outstanding, and time
\* and again none is outstanding; when none is outstanding the flag is unset.
C17_SubmitLifecycle ==
    /\ [][(last'.op = "submit" /\ last'.accepted) =>
              /\ messages' = Append(messages, [role |-> "user", type |-> "text",
                                               content |-> last'.text])
              /\ isTyping'
              /\ Cardinality(Outstanding') = Cardinality(Outstanding) + 1]_vars
    /\ [][last'.op = "dispatch" =>
              /\ Len(messages') = Len(messages) + 1
              /\ SubSeq(messages', 1, Len(messages)) = messages
              /\ messages'[Len(messages')].role = "ai"
              /\ Cardinality(Outstanding') = Cardinality(Outstanding) - 1]_vars
    /\ [](Responses + Cardinality(Outstanding) = Cardinality(ByRole("user")))
    /\ [](Outstanding = {} => ~ isTyping)
    /\ []<>(Outstanding = {})

\* C17 witness: two commands were submitted and both have been answered
C17_Witness ==
    /\ Cardinality(ByRole("user")) = 2
    /\ Responses = 2
    /\ Outstanding = {}
    /\ ~ isTyping

\* C18: the response and the store call of a dispatch are those computed
\* from the task list as it is when the dispatch runs (the tasks the
\* assistant is given at that time), not from an earlier one.
C18_LiveState ==
    [][last'.op = "dispatch" =>
          \E rnd \in RandomDraws(last'.input, filteredTasks) :
              LET live == Respond(last'.input, filteredTasks, rnd)
              IN  /\ live.effect = last'.effect
                  /\ live.msg = messages'[Len(messages')]]_vars

\* The persisted collection
Persisted == loadTasks(storage)

WellTyped(ts) ==
    \A i \in 1..Len(ts) :
        ts[i].status \in TaskStatus /\ ts[i].riskLevel \in RiskLevel

\* C19: every task of the in-memory and of the persisted collection has a
\* status among the five of TaskStatus and a risk level among the four of
\* RiskLevel.
C19_EnumeratedValues == WellTyped(tasks) /\ WellTyped(Persisted)

\* C19 witness: a command of the assistant has set the status of a task
\* that a view had edited before, in memory and in storage
C19_Witness ==
    /\ last.op = "dispatch"
    /\ last.effect.kind = "update"
    /\ \E i \in 1..Len(tasks) :
        /\ tasks[i].id = last.effect.id
        /\ tasks[i].status = last.effect.updates.status
        /\ tasks[i].name = "Landing zone"
        /\ tasks[i] \in {Persisted[j] : j \in 1..Len(Persisted)}

\* The identifiers of a list of tasks, in order
IdSeq(ts) == [i \in 1..Len(ts) |-> ts[i].id]

IsPrefix(a, b) == Len(a) <= Len(b) /\ SubSeq(b, 1, Len(a)) = a

\* C20: no step changes the identifier of a task: the commands of the
\* assistant and the create, update and bulk update calls keep every task of
\* the in-memory list in its place with its identifier, every write keeps
\* the identifiers of the persisted tasks, and a sync brings the persisted
\* tasks into memory with the identifiers they have in storage.
C20_IdentifierImmutable ==
    [][/\ IsPrefix(IdSeq(Persisted), IdSeq(Persisted'))
       /\ IF last'.op \in {"initDone", "syncDone"}
          THEN IdSeq(tasks') = IdSeq(Persisted)
          ELSE IsPrefix(IdSeq(tasks), IdSeq(tasks'))]_vars

\* C20 witness: a bulk update has changed the status of a task created
\* before, which is still found under its identifier
C20_Witness ==
    /\ last.op = "bulk"
    /\ "TSK-0" \in last.ids
    /\ \E i \in 1..Len(tasks) :
        tasks[i].id = "TSK-0" /\ tasks[i].status = last.updates.status

Replied == probe.kind = "reply" /\ probe.out # Undefined

\* The kind of response the outcome of a command calls for
KindFor(intent, input, ts) ==
    CASE intent = "Summarize"     -> "kpi"
      [] intent = "RiskQuery"     -> IF Risky(ts) # {} THEN "task-list" ELSE "success"
      [] intent = "WorkloadQuery" -> "chart"
      [] intent = "CreateTask"    -> "success"
      [] intent = "UpdateStatus"  -> IF ResolutionMiss(input, ts) THEN "text" ELSE "success"
      [] intent = "GenerateFlow"  -> "flow"
      [] intent = "Unrecognized"  -> "text"

TaskFields == {"id", "name", "assignee", "status", "riskLevel", "description"}

\* The payload a response of each kind is rendered from
PayloadFits(msg) ==
    CASE msg.type = "kpi" ->
            /\ "data" \in DOMAIN msg
            /\ DOMAIN msg.data = {"total", "done", "blocked", "critical", "progress"}
            /\ \A f \in DOMAIN msg.data : msg.data[f] \in Nat
      [] msg.type = "task-list" ->
            /\ "data" \in DOMAIN msg
            /\ Len(msg.data) > 0
            /\ \A k \in 1..Len(msg.data) : DOMAIN msg.data[k] = TaskFields
      [] msg.type = "chart" ->
            /\ "data" \in DOMAIN msg
            /\ \A k \in 1..Len(msg.data) : DOMAIN msg.data[k] = {"name", "tasks"}
            /\ AllNumbers(msg.data)
      [] msg.type = "flow" ->
            /\ "data" \in DOMAIN msg
            /\ Len(msg.data) > 0
      [] msg.type = "success" ->
            "data" \in DOMAIN msg => DOMAIN msg.data = TaskFields
      [] msg.type = "text" -> "data" \notin DOMAIN msg
      [] OTHER -> FALSE

\* The kind of the response is the one its outcome calls for
KindMatches ==
    Replied =>
        probe.out.msg.type = KindFor(probe.out.intent, probe.input, probe.tasks)

\* C21: the response to a command is an assistant message whose kind is the
\* one the outcome calls for (Summarize kpi, RiskQuery task-list or success,
\* WorkloadQuery chart, CreateTask success, UpdateStatus success or text,
\* GenerateFlow flow, Unrecognized text) and whose payload has the shape of
\* that kind.
C21_ResponseKind ==
    Replied =>
        LET msg == probe.out.msg
        IN  /\ msg.role = "ai"
            /\ msg.content # ""
            /\ msg.type = KindFor(probe.out.intent, probe.input, probe.tasks)
            /\ PayloadFits(msg)

C23_NeverRemoved ==
    [][Ids(tasks) \subseteq Ids(tasks')]_vars

\* The commands accepted so far, in submission order
Submitted == SelectSeq(messages, LAMBDA m : m.role = "user")

\* C24: the k-th response appended answers the k-th accepted submit, also
\* when the submits overlap (the second is accepted while the first is still
\* being answered).
C24_ResponseOrder ==
    [][last'.op = "dispatch" =>
          /\ Responses' <= Len(Submitted')
          /\ last'.input = Submitted'[Responses'].content]_vars

\* C24 witness: a second, different command was accepted while the first was
\* being answered, and the two responses follow in the order of the submits
C24_Witness ==
    /\ Len(messages) = 5
    /\ messages[2] = [role |-> "user", type |-> "text",
                      content |-> "Summarize project status"]
    /\ messages[3] = [role |-> "user", type |-> "text",
                      content |-> "create task for Landing Page redesign"]
    /\ messages[4].role = "ai" /\ messages[4].type = "kpi"
    /\ messages[5].role = "ai" /\ messages[5].type = "success"
    /\ last.op = "dispatch"
    /\ last.input = messages[3].content

ReadOnlyIntents ==
    {"Summarize", "RiskQuery", "WorkloadQuery", "GenerateFlow", "Unrecognized"}

\* The writes of createTask and bulkSyncUpdate waiting for their delay
PendingWrites == SelectSeq(timers, LAMBDA t : t.kind \in {"create", "bulk"})

\* C25: the dispatch of a Summarize, RiskQuery, WorkloadQuery, GenerateFlow
\* or Unrecognized command makes no store call and leaves the in-memory
\* collection, the persisted collection and the pending writes as they were;
\* a dispatch that changes any of them is a CreateTask or a resolved
\* UpdateStatus.
C25_ReadOnlyIntents ==
    [][last'.op = "dispatch" =>
          /\ last'.intent \in ReadOnlyIntents =>
                /\ last'.effect = NoEffect
                /\ tasks' = tasks
                /\ storage' = storage
                /\ PendingWrites' = PendingWrites
          /\ (tasks' # tasks \/ storage' # storage \/ PendingWrites' # PendingWrites) =>
                \/ last'.intent = "CreateTask"
                \/ /\ last'.intent = "UpdateStatus"
                   /\ ~ ResolutionMiss(last'.input, last'.seen)]_vars

\* C25 witness: a workload query has been dispatched while the write of a
\* task created just before is still pending, and memory and storage differ
C25_Witness ==
    /\ last.op = "dispatch"
    /\ last.intent = "WorkloadQuery"
    /\ Len(PendingWrites) = 1
    /\ tasks # loadTasks(storage)
    /\ LastMessage.type = "chart"

\* C26: an update step (handleTaskUpdate / handleTaskChange) keeps the length
\* and the order of the in-memory collection, leaves every task with another
\* identifier as it was and, in the tasks with the identifier, sets the
\* fields of the partial update and leaves the other fields; of two updates
\* of one task in a row the later value of a field named by both is the one
\* in memory, and a field named by the earlier alone keeps the earlier value.
C26_UpdateFrame ==
    /\ [][last'.op = "update" =>
              /\ Len(tasks') = Len(tasks)
              /\ \A i \in 1..Len(tasks) :
                    IF tasks[i].id = last'.id
                    THEN \A f \in DOMAIN tasks[i] :
                            tasks'[i][f] = IF f \in DOMAIN last'.updates
                                           THEN last'.updates[f] ELSE tasks[i][f]
                    ELSE tasks'[i] = tasks[i]]_vars
    /\ [][(last.op = "update" /\ last'.op = "update" /\ last'.id = last.id) =>
              \A i \in 1..Len(tasks') :
                  tasks'[i].id = last.id =>
                      \A f \in DOMAIN last.updates :
                          tasks'[i][f] = IF f \in DOMAIN last'.updates
                                         THEN last'.updates[f] ELSE last.updates[f]]_vars

\* C26 witness: TSK-003, renamed by an earlier update, has just been given
\* the status Review by a second update: both values are in memory and the
\* other tasks are the seed tasks
C26_Witness ==
    /\ last.op = "update"
    /\ last.id = "TSK-003"
    /\ last.updates = [status |-> REVIEW]
    /\ Len(tasks) = Len(DEFAULT_TASKS)
    /\ \A i \in 1..Len(tasks) :
          IF tasks[i].id = "TSK-003"
          THEN tasks[i] = Merge(DEFAULT_TASKS[i],
                                [name |-> "Landing zone", status |-> REVIEW])
          ELSE tasks[i] = DEFAULT_TASKS[i]

\* after is before with the partial update applied to exactly the tasks whose
\* identifier is in ids
AppliedTo(before, after, ids, updates) ==
    /\ Len(after) = Len(before)
    /\ \A i \in 1..Len(before) :
          IF before[i].id \in ids
          THEN \A f \in DOMAIN before[i] :
                  after[i][f] = IF f \in DOMAIN updates
                                THEN updates[f] ELSE before[i][f]
          ELSE after[i] = before[i]

\* C27: handleBulkUpdate applies the partial update, in the same step, to
\* exactly the in-memory tasks whose identifier is among ids; when the write
\* of bulkSyncUpdate completes, the persisted collection is the one persisted
\* just before with the update applied to exactly those tasks; identifiers
\* without a task change nothing.
C27_BulkUpdate ==
    /\ [][last'.op = "bulk" =>
              /\ AppliedTo(tasks, tasks', last'.ids, last'.updates)
              /\ storage' = storage]_vars
    /\ [][last'.op = "bulkPersisted" =>
              /\ AppliedTo(loadTasks(storage), loadTasks(storage'),
                           last'.ids, last'.updates)
              /\ tasks' = tasks]_vars

\* C27 witness: the write of a bulk update of TSK-003 and TSK-0 to Review has
\* completed; both tasks are Review in memory and in storage and TSK-001 is
\* Done as before
C27_Witness ==
    /\ last.op = "bulkPersisted"
    /\ last.ids = {"TSK-003", "TSK-0"}
    /\ last.updates = [status |-> REVIEW]
    /\ \A ts \in {tasks, loadTasks(storage)} :
          /\ Len(ts) = Len(DEFAULT_TASKS) + 1
          /\ \A i \in 1..Len(ts) :
                ts[i].status = IF ts[i].id \in last.ids THEN REVIEW
                               ELSE DEFAULT_TASKS[i].status

\* C28: the callback of a submitted command leaves the timers only by running
\* (it appends its response and makes its store call, whether the panel is
\* open or the chat was cleared), a pending write leaves them only by
\* completing, and time and again no command is unanswered and no write is
\* pending.
C28_NoCancellation ==
    /\ [][Cardinality(Outstanding') < Cardinality(Outstanding) =>
              /\ last'.op = "dispatch"
              /\ messages' = Append(messages, messages'[Len(messages')])
              /\ messages'[Len(messages')].role = "ai"
              /\ last'.effect.kind = "create" =>
                    /\ tasks' = Append(tasks, last'.effect.task)
                    /\ Len(PendingWrites') = Len(PendingWrites) + 1]_vars
    /\ [][Len(PendingWrites') < Len(PendingWrites) =>
              /\ last'.op = "createPersisted"
              /\ loadTasks(storage') = Append(loadTasks(storage), last'.task)]_vars
    /\ []<>(Outstanding = {} /\ PendingWrites = << >>)

\* C28 witness: a create command was submitted, the chat cleared and the
\* panel closed before its response; the task was created and its write has
\* completed, and the response is the only message of the log
C28_Witness ==
    /\ last.op = "createPersisted"
    /\ ~ isOpen
    /\ Len(messages) = 1
    /\ messages[1].role = "ai" /\ messages[1].type = "success"
    /\ last.task.id \in Ids(tasks)
    /\ last.task.id \in StoredIds
    /\ Outstanding = {}
    /\ PendingWrites = << >>

\* C29: the dispatch of a CreateTask or of a resolved UpdateStatus puts the
\* change into the in-memory collection and appends the success response in
\* one step; for a create the write is still pending after that step, and
\* neither its completion nor its rejection touches the log.
C29_NoWaitForPersistence ==
    /\ [][(last'.op = "dispatch" /\ last'.effect.kind = "create") =>
              /\ tasks' = Append(tasks, last'.effect.task)
              /\ messages' = Append(messages, messages'[Len(messages')])
              /\ messages'[Len(messages')].type = "success"
              /\ messages'[Len(messages')].data = last'.effect.task
              /\ storage' = storage
              /\ \E i \in 1..Len(PendingWrites') :
                    PendingWrites'[i].payload = last'.effect.task]_vars
    /\ [][(last'.op = "dispatch" /\ last'.effect.kind = "update") =>
              /\ \E i \in 1..Len(tasks') : tasks'[i].id = last'.effect.id
              /\ \A i \in 1..Len(tasks') :
                    tasks'[i].id = last'.effect.id =>
                        tasks'[i].status = last'.effect.updates.status
              /\ messages' = Append(messages, messages'[Len(messages')])
              /\ messages'[Len(messages')].type = "success"]_vars
    /\ [][last'.op \in {"createPersisted", "rejected"} =>
              messages' = messages /\ tasks' = tasks]_vars

\* C29 witness: the write of a task created by the assistant has been
\* rejected; the task is in memory, not in storage, and the success response
\* given at dispatch is in the log
C29_Witness ==
    /\ last.op = "rejected"
    /\ last.call = "create"
    /\ last.task.id \in Ids(tasks)
    /\ last.task.id \notin StoredIds
    /\ \E k \in 1..Len(messages) :
          /\ messages[k].type = "success"
          /\ "data" \in DOMAIN messages[k]
          /\ messages[k].data = last.task

\* C30: a submit of an empty or blank text appends no message, leaves the
\* typing flag as it was, schedules no callback and leaves the in-memory and
\* the persisted collection unchanged.
C30_BlankSubmit ==
    [][(last'.op = "submit"
          /\ \A k \in 1..Len(last'.text) : CharAt(last'.text, k) = " ") =>
            /\ ~ last'.accepted
            /\ messages' = messages
            /\ isTyping' = isTyping
            /\ timers' = timers
            /\ tasks' = tasks
            /\ storage' = storage]_vars

\* C30 witness: blanks were submitted while a command was being answered: the
\* log holds the greeting and that command, whose callback is the only one
\* pending, and the flag is still set
C30_Witness ==
    /\ last.op = "submit"
    /\ last.text = "  "
    /\ ~ last.accepted
    /\ Len(messages) = 2
    /\ isTyping
    /\ Cardinality(Outstanding) = 1
    /\ Len(timers) = 1

====
